---- MODULE Spec2Model ----
(***************************************************************************)
(* ElectionMap: scripts/scrape_votes.py (extraction of the embedded        *)
(* election object and vote aggregation) and scripts/build_map.py (seat    *)
(* name normalisation and the join of seat rows onto map features).        *)
(*                                                                         *)
(* Text is modelled as a sequence of one-character strings, indexed from 0 *)
(* by the operators below as in Python (Seq index = Python index + 1).     *)
(***************************************************************************)
EXTENDS Integers, Sequences, FiniteSets, TLC

VARIABLES
    \* scrape_votes.main
    pc,                 \* position of main
    env,                \* what the network and the file system answer
    page,               \* the page served / saved: script blocks and embedded object
    html_text,          \* main's html_text: NoHtml (None) or Html(script blocks)
    html_source,        \* where html_text came from: "none", "network", "local"
    requests,           \* number of requests.get calls made so far
    json_text,          \* the text handed to json.loads (None before that)
    data,               \* the decoded election object (<<>> until assigned)
    seat_df,            \* compute_results' three results (<<>> until assigned)
    party_totals_df,
    party_by_seat_df,
    files,              \* the set of files written by main
    error,              \* the exception that ended main ("" while none)
    \* normalize_seat_name, applied repeatedly
    n_name,             \* the text normalize_seat_name is applied to next
    n_trace,            \* the results of the applications so far
    \* build_map's join
    m_pc,               \* position of build_map
    m_results,          \* results_df: the rows read from the seat results CSV
    m_geojson,          \* the feature collection
    m_seat_data,        \* build_map's seat_data dictionary
    m_i                 \* index of the next row / feature of the running loop

scrapeVars == <<pc, env, page, html_text, html_source, requests, json_text, data,
                seat_df, party_totals_df, party_by_seat_df, files, error>>
normVars == <<n_name, n_trace>>
mapVars == <<m_pc, m_results, m_geojson, m_seat_data, m_i>>
vars == <<scrapeVars, normVars, mapVars>>

\* Python's None where a str is expected: a sequence that is no text (texts hold
\* one-character strings only). NoneInt is None where an int is expected (JSON
\* null in a votes field): vote counts are natural numbers.
None == <<"None">>
NoneInt == -1
\* Optional[str] of a whole page: None, or the page.
NoHtml == <<>>
Html(scripts) == <<scripts>>

-----------------------------------------------------------------------------
(* Text: the str methods the scripts use. *)

Min(a, b) == IF a < b THEN a ELSE b
Max(a, b) == IF a > b THEN a ELSE b

\* s[a:b] with Python's clamping of negative and oversized bounds.
ClampIndex(s, a) == IF a < 0 THEN Max(Len(s) + a, 0) ELSE Min(a, Len(s))
Slice(s, a, b) == SubSeq(s, ClampIndex(s, a) + 1, ClampIndex(s, b))

\* t occurs in s at Python index i.
OccursAt(s, t, i) ==
    /\ i >= 0
    /\ i + Len(t) <= Len(s)
    /\ \A k \in 1..Len(t) : s[i + k] = t[k]

\* s.find(t, start): the lowest index >= start where t occurs, or -1.
Find(s, t, start) ==
    LET from == ClampIndex(s, start)
        hits == {i \in from..(Len(s) - Len(t)) : OccursAt(s, t, i)}
    IN IF hits = {} THEN -1 ELSE CHOOSE i \in hits : \A j \in hits : i <= j

\* t in s
Contains(s, t) == Find(s, t, 0) # -1

\* s.startswith(t)
StartsWith(s, t) == OccursAt(s, t, 0)

UpperChars == <<"A","B","C","D","E","F","G","H","I","J","K","L","M",
                "N","O","P","Q","R","S","T","U","V","W","X","Y","Z">>
LowerChars == <<"a","b","c","d","e","f","g","h","i","j","k","l","m",
                "n","o","p","q","r","s","t","u","v","w","x","y","z">>
Digits == {"0","1","2","3","4","5","6","7","8","9"}
Whitespace == {" ", "\t", "\n"}

LowerChar(c) ==
    IF \E k \in 1..Len(UpperChars) : UpperChars[k] = c
    THEN LowerChars[CHOOSE k \in 1..Len(UpperChars) : UpperChars[k] = c]
    ELSE c

\* s.lower()
Lower(s) == [k \in 1..Len(s) |-> LowerChar(s[k])]

\* s.strip()
Strip(s) ==
    LET keep == {k \in 1..Len(s) : s[k] \notin Whitespace}
    IN IF keep = {} THEN <<>>
       ELSE SubSeq(s, CHOOSE k \in keep : \A j \in keep : k <= j,
                      CHOOSE k \in keep : \A j \in keep : k >= j)

\* s.replace(old, new, count): left to right, non-overlapping; count < 0 is all.
RECURSIVE Replace(_, _, _, _)
Replace(s, old, new, count) ==
    LET i == Find(s, old, 0)
    IN IF count = 0 \/ i = -1 THEN s
       ELSE Slice(s, 0, i) \o new
            \o Replace(Slice(s, i + Len(old), Len(s)), old, new, count - 1)

ReplaceAll(s, old, new) == Replace(s, old, new, -1)

\* re.sub(r"[^a-z0-9\- ]", '', s)
AllowedChars == {LowerChars[k] : k \in 1..Len(LowerChars)} \cup Digits \cup {"-", " "}
RECURSIVE DropDisallowed(_)
DropDisallowed(s) ==
    IF s = <<>> THEN <<>>
    ELSE (IF Head(s) \in AllowedChars THEN <<Head(s)>> ELSE <<>>)
         \o DropDisallowed(Tail(s))

\* re.sub(r"\s+", ' ', s)
RECURSIVE CollapseWhitespace(_)
CollapseWhitespace(s) ==
    IF s = <<>> THEN <<>>
    ELSE IF Head(s) \in Whitespace
         THEN IF Len(s) > 1 /\ s[2] \in Whitespace
              THEN CollapseWhitespace(Tail(s))
              ELSE <<" ">> \o CollapseWhitespace(Tail(s))
         ELSE <<Head(s)>> \o CollapseWhitespace(Tail(s))

-----------------------------------------------------------------------------
(* build_map.normalize_seat_name *)

W_chattogram == <<"c","h","a","t","t","o","g","r","a","m">>
W_chittagong == <<"c","h","i","t","t","a","g","o","n","g">>
W_barishal == <<"b","a","r","i","s","h","a","l">>
W_barisal == <<"b","a","r","i","s","a","l">>
W_chapai_nawabganj == <<"c","h","a","p","a","i"," ","n","a","w","a","b","g","a","n","j">>
W_chapai_nababganj == <<"c","h","a","p","a","i"," ","n","a","b","a","b","g","a","n","j">>
W_jhalakathi == <<"j","h","a","l","a","k","a","t","h","i">>
W_jhalokathi == <<"j","h","a","l","o","k","a","t","h","i">>
W_moulvibazar == <<"m","o","u","l","v","i","b","a","z","a","r">>
W_maulvibazar == <<"m","a","u","l","v","i","b","a","z","a","r">>
W_netrokona == <<"n","e","t","r","o","k","o","n","a">>
W_netrakona == <<"n","e","t","r","a","k","o","n","a">>
W_khagrachhari == <<"k","h","a","g","r","a","c","h","h","a","r","i">>
W_khagrachari == <<"k","h","a","g","r","a","c","h","a","r","i">>
W_parbatya_ == <<"p","a","r","b","a","t","y","a"," ">>

\* The spelling-variant substitutions, in the order they are applied.
SpellingVariants == <<
    <<W_chattogram, W_chittagong>>,
    <<W_barishal, W_barisal>>,
    <<W_chapai_nawabganj, W_chapai_nababganj>>,
    <<W_jhalakathi, W_jhalokathi>>,
    <<W_moulvibazar, W_maulvibazar>>,
    <<W_netrokona, W_netrakona>>,
    <<W_khagrachhari, W_khagrachari>> >>

RECURSIVE ApplyVariants(_, _)
ApplyVariants(s, k) ==
    IF k > Len(SpellingVariants) THEN s
    ELSE ApplyVariants(ReplaceAll(s, SpellingVariants[k][1], SpellingVariants[k][2]), k + 1)

\* The hill-district prefix: stripped once, "-1" appended when no '-' remains.
HillPrefix(norm) ==
    IF StartsWith(norm, W_parbatya_)
    THEN LET rest == Replace(norm, W_parbatya_, <<>>, 1)
         IN IF ~Contains(rest, <<"-">>) THEN rest \o <<"-", "1">> ELSE rest
    ELSE norm

normalize_seat_name(name) ==
    IF name = None \/ name = <<>> THEN <<>>
    ELSE CollapseWhitespace(DropDisallowed(HillPrefix(ApplyVariants(Lower(Strip(name)), 1))))

-----------------------------------------------------------------------------
(* Python dicts: insertion-ordered, a sequence of <<key, value>> pairs with    *)
(* distinct keys. Lists are sequences.                                        *)

DictKeys(d) == [k \in 1..Len(d) |-> d[k][1]]
DictHas(d, key) == \E k \in 1..Len(d) : d[k][1] = key
\* d.get(key, default)
DictGet(d, key, default) ==
    IF DictHas(d, key) THEN d[CHOOSE k \in 1..Len(d) : d[k][1] = key][2] ELSE default
\* d[key] = value: in place when the key is held, appended otherwise.
DictSet(d, key, value) ==
    IF DictHas(d, key)
    THEN [k \in 1..Len(d) |-> IF d[k][1] = key THEN <<key, value>> ELSE d[k]]
    ELSE Append(d, <<key, value>>)

\* Python truthiness of a str-or-None value.
Truthy(v) == v # None /\ v # <<>>

\* sorted(xs, key=..., reverse=True) / list.sort(key=..., reverse=True):
\* stable, so elements of equal key keep their order. Key(x) is x[keyPos].
\* InsertDesc placing an element before the elements of equal key.
RECURSIVE InsertDescUnstable(_, _, _)
InsertDescUnstable(sorted, x, keyPos) ==
    IF sorted = <<>> THEN <<x>>
    ELSE IF Head(sorted)[keyPos] > x[keyPos]
         THEN <<Head(sorted)>> \o InsertDescUnstable(Tail(sorted), x, keyPos)
         ELSE <<x>> \o sorted

RECURSIVE InsertDesc(_, _, _)
InsertDesc(sorted, x, keyPos) ==
    IF sorted = <<>> THEN <<x>>
    ELSE IF Head(sorted)[keyPos] >= x[keyPos]
         THEN <<Head(sorted)>> \o InsertDesc(Tail(sorted), x, keyPos)
         ELSE <<x>> \o sorted

RECURSIVE SortDescFrom(_, _, _, _)
SortDescFrom(xs, k, keyPos, sorted) ==
    IF k > Len(xs) THEN sorted
    ELSE SortDescFrom(xs, k + 1, keyPos, InsertDesc(sorted, xs[k], keyPos))

SortDesc(xs, keyPos) == SortDescFrom(xs, 1, keyPos, <<>>)

\* Code-point order of the characters that occur in keys and party names.
AsciiOrder == <<"\t", "\n", " ", "!", "\"", "(", ")", ",", "-", ".",
                "0","1","2","3","4","5","6","7","8","9", ":">>
              \o UpperChars \o <<"_">> \o LowerChars \o <<"{", "}">>
Ord(c) == CHOOSE k \in 1..Len(AsciiOrder) : AsciiOrder[k] = c

\* a < b for str: lexicographic by code point.
RECURSIVE StrLess(_, _)
StrLess(a, b) ==
    IF b = <<>> THEN FALSE
    ELSE IF a = <<>> THEN TRUE
    ELSE IF Head(a) = Head(b) THEN StrLess(Tail(a), Tail(b))
    ELSE Ord(Head(a)) < Ord(Head(b))

\* sorted(strs): ascending.
RECURSIVE InsertAsc(_, _)
InsertAsc(sorted, x) ==
    IF sorted = <<>> THEN <<x>>
    ELSE IF StrLess(x, Head(sorted)) THEN <<x>> \o sorted
    ELSE <<Head(sorted)>> \o InsertAsc(Tail(sorted), x)

RECURSIVE SortedFrom(_, _, _)
SortedFrom(xs, k, sorted) ==
    IF k > Len(xs) THEN sorted ELSE SortedFrom(xs, k + 1, InsertAsc(sorted, xs[k]))

Sorted(xs) == SortedFrom(xs, 1, <<>>)

-----------------------------------------------------------------------------
(* scrape_votes: record keys and literals. *)

K_seat_id == <<"s","e","a","t","_","i","d">>
K_seat_number == <<"s","e","a","t","_","n","u","m","b","e","r">>
K_seat_name == <<"s","e","a","t","_","n","a","m","e">>
K_total_votes == <<"t","o","t","a","l","_","v","o","t","e","s">>
K_top_three_candidates ==
    <<"t","o","p","_","t","h","r","e","e","_","c","a","n","d","i","d","a","t","e","s">>
K_top_three == <<"t","o","p","_","t","h","r","e","e">>
S_votes == <<"_","v","o","t","e","s">>
S_ratio == <<"_","r","a","t","i","o">>
\* f'{code}_votes', f'{code}_ratio'
VotesKey(code) == code \o S_votes
RatioKey(code) == code \o S_ratio

UNKNOWN == <<"U","N","K","N","O","W","N">>
Unknown == <<"U","n","k","n","o","w","n">>

\* A float that is the quotient of two ints, kept exact: <<numerator, denominator>>.
Zero == <<0, 1>>
Quotient(a, b) == <<a, b>>

\* f"{votes / total_votes * 100:.1f}": the percentage in tenths, rounded half
\* to even as the format does.
Pct10(votes, total_votes) ==
    LET q == (votes * 1000) \div total_votes
        r == (votes * 1000) % total_votes
    IN IF 2 * r > total_votes \/ (2 * r = total_votes /\ q % 2 = 1) THEN q + 1 ELSE q

-----------------------------------------------------------------------------
(* scrape_votes.load_coalitions, party_in_coalition, _extract_candidate_name *)

\* meta['keywords'] = [kw.lower() for kw in meta.get('keywords', [])]
LowerKeywords(meta) ==
    LET kws == DictGet(meta, "keywords", <<>>)
    IN DictSet(meta, "keywords", [k \in 1..Len(kws) |-> Lower(kws[k])])

load_coalitions(config) ==
    [k \in 1..Len(config) |-> <<config[k][1], LowerKeywords(config[k][2])>>]

\* party_in_coalition comparing the party name as written, not lower-cased.
party_in_coalition_cased(party_name, keywords) ==
    IF ~Truthy(party_name) THEN FALSE
    ELSE \E k \in 1..Len(keywords) : Contains(party_name, keywords[k])

party_in_coalition(party_name, keywords) ==
    IF ~Truthy(party_name) THEN FALSE
    ELSE LET name_lc == Lower(party_name)
         IN \E k \in 1..Len(keywords) : Contains(name_lc, keywords[k])

NameKeys == <<"candidate_name", "name", "candidate", "full_name", "candidateName">>

RECURSIVE ProbeName(_, _)
ProbeName(candidate, k) ==
    IF k > Len(NameKeys) THEN Unknown
    ELSE LET value == DictGet(candidate, NameKeys[k], None)
         IN IF Truthy(value) THEN Strip(value) ELSE ProbeName(candidate, k + 1)

_extract_candidate_name(candidate) == ProbeName(candidate, 1)

-----------------------------------------------------------------------------
(* scrape_votes.compute_results *)

\* candidates_by_diid = {str(cand.get('diid')): cand for cand in candidate_list}
RECURSIVE CandidatesByDiid(_, _, _)
CandidatesByDiid(candidate_list, k, d) ==
    IF k > Len(candidate_list) THEN d
    ELSE CandidatesByDiid(candidate_list, k + 1,
             DictSet(d, DictGet(candidate_list[k], "diid", None), candidate_list[k]))

\* PartyOf without the placeholder: the party as the record holds it, or ''.
PartyOfNoPlaceholder(candidate) == DictGet(candidate, "party", <<>>)

\* candidate.get('party') or 'UNKNOWN'
PartyOf(candidate) ==
    LET party == DictGet(candidate, "party", None)
    IN IF Truthy(party) THEN party ELSE UNKNOWN

\* AddToCoalitions adding the votes once per matching keyword.
AddPerKeyword(coalition_counts, coalitions, party_name, votes) ==
    [k \in 1..Len(coalition_counts) |->
        LET code == coalition_counts[k][1]
            keywords == DictGet(DictGet(coalitions, code, <<>>), "keywords", <<>>)
            hits == Cardinality({i \in 1..Len(keywords) :
                                    party_in_coalition(party_name, <<keywords[i]>>)})
        IN <<code, coalition_counts[k][2] + hits * votes>>]

\* for code, meta in coalitions.items(): if party_in_coalition(...): counts[code] += votes
AddToCoalitions(coalition_counts, coalitions, party_name, votes) ==
    [k \in 1..Len(coalition_counts) |->
        LET code == coalition_counts[k][1]
            keywords == DictGet(DictGet(coalitions, code, <<>>), "keywords", <<>>)
        IN IF party_in_coalition(party_name, keywords)
           THEN <<code, coalition_counts[k][2] + votes>>
           ELSE coalition_counts[k]]

\* The body of the loop over result_dict.items() for an entry that has votes.
CountEntry(acc, seat, candidates_by_diid, coalitions, diid, votes) ==
    LET candidate == DictGet(candidates_by_diid, diid, <<>>)
        party_name == PartyOf(candidate)
        candidate_name == _extract_candidate_name(candidate)
    IN [total_votes |-> acc.total_votes + votes,
        party_vote_totals |->
            DictSet(acc.party_vote_totals, party_name,
                    DictGet(acc.party_vote_totals, party_name, 0) + votes),
        seat_votes_by_party |->
            DictSet(acc.seat_votes_by_party, party_name,
                    DictGet(acc.seat_votes_by_party, party_name, 0) + votes),
        party_by_seat_records |->
            Append(acc.party_by_seat_records,
                   [seat_id |-> seat.seat_id, seat_number |-> seat.seat_number,
                    seat_name |-> seat.seat_name, party |-> party_name, votes |-> votes]),
        candidate_rankings |->
            Append(acc.candidate_rankings, <<votes, candidate_name, party_name>>),
        coalition_counts |->
            AddToCoalitions(acc.coalition_counts, coalitions, party_name, votes)]

\* ProcessEntry counting an entry without votes as an entry with 0 votes.
ProcessEntryNullAsZero(acc, seat, candidates_by_diid, coalitions, diid, result) ==
    LET votes == DictGet(result, "votes", NoneInt)
    IN CountEntry(acc, seat, candidates_by_diid, coalitions, diid,
                  IF votes = NoneInt THEN 0 ELSE votes)

\* ProcessEntry skipping an entry whose diid has no candidate record.
ProcessEntrySkipUnmatched(acc, seat, candidates_by_diid, coalitions, diid, result) ==
    LET votes == DictGet(result, "votes", NoneInt)
    IN IF votes = NoneInt \/ ~DictHas(candidates_by_diid, diid) THEN acc
       ELSE CountEntry(acc, seat, candidates_by_diid, coalitions, diid, votes)

\* votes = result.get('votes'); if votes is None: continue
ProcessEntry(acc, seat, candidates_by_diid, coalitions, diid, result) ==
    LET votes == DictGet(result, "votes", NoneInt)
    IN IF votes = NoneInt THEN acc
       ELSE CountEntry(acc, seat, candidates_by_diid, coalitions, diid, votes)

RECURSIVE EntryLoop(_, _, _, _, _, _)
EntryLoop(result_dict, k, acc, seat, candidates_by_diid, coalitions) ==
    IF k > Len(result_dict) THEN acc
    ELSE EntryLoop(result_dict, k + 1,
             ProcessEntry(acc, seat, candidates_by_diid, coalitions,
                          result_dict[k][1], result_dict[k][2]),
             seat, candidates_by_diid, coalitions)

\* Ratios without the test for a seat total of zero.
RatiosUnguarded(coalition_counts, total_votes) ==
    [k \in 1..Len(coalition_counts) |->
        <<coalition_counts[k][1], Quotient(coalition_counts[k][2], total_votes)>>]

\* if total_votes == 0: all 0.0, else coalition_counts[code] / total_votes
Ratios(coalition_counts, total_votes) ==
    [k \in 1..Len(coalition_counts) |->
        <<coalition_counts[k][1],
          IF total_votes = 0 THEN Zero
          ELSE Quotient(coalition_counts[k][2], total_votes)>>]

\* candidate_rankings.sort(key=lambda row: row[0], reverse=True); [:3]
TopEntries(candidate_rankings) == Slice(SortDesc(candidate_rankings, 1), 0, 3)

\* The two top-three texts: ', '.join of one item per top entry. A text is kept
\* as the sequence of its items, '' being the empty sequence; an item holds the
\* fields its f-string prints.
TopThreeCandidates(candidate_rankings, total_votes) ==
    IF candidate_rankings # <<>> /\ total_votes > 0
    THEN LET top == TopEntries(candidate_rankings)
         IN [k \in 1..Len(top) |->
                [name |-> top[k][2], party |-> top[k][3],
                 pct10 |-> Pct10(top[k][1], total_votes)]]
    ELSE <<>>

TopThreeParties(candidate_rankings, total_votes) ==
    IF candidate_rankings # <<>> /\ total_votes > 0
    THEN LET top == TopEntries(candidate_rankings)
         IN [k \in 1..Len(top) |->
                [party |-> top[k][3], pct10 |-> Pct10(top[k][1], total_votes)]]
    ELSE <<>>

\* for code in coalitions: record[f'{code}_votes'] = ...; record[f'{code}_ratio'] = ...
RECURSIVE AddCoalitionFields(_, _, _, _)
AddCoalitionFields(record, coalition_counts, ratios, k) ==
    IF k > Len(coalition_counts) THEN record
    ELSE AddCoalitionFields(
             DictSet(DictSet(record, VotesKey(coalition_counts[k][1]), coalition_counts[k][2]),
                     RatioKey(ratios[k][1]), ratios[k][2]),
             coalition_counts, ratios, k + 1)

SeatRecord(seat, acc) ==
    AddCoalitionFields(
        << <<K_seat_id, seat.seat_id>>,
           <<K_seat_number, seat.seat_number>>,
           <<K_seat_name, seat.seat_name>>,
           <<K_total_votes, acc.total_votes>>,
           <<K_top_three_candidates,
             TopThreeCandidates(acc.candidate_rankings, acc.total_votes)>>,
           <<K_top_three, TopThreeParties(acc.candidate_rankings, acc.total_votes)>> >>,
        acc.coalition_counts, Ratios(acc.coalition_counts, acc.total_votes), 1)

\* results = seat_info.get('election_results', {}); a list counts as no results.
ResultDict(seat_info) ==
    LET results == DictGet(seat_info, "election_results", [kind |-> "dict", items |-> <<>>])
    IN IF results.kind = "list" THEN <<>> ELSE results.items

\* One iteration of the loop over constituencies.items(). st holds what lives
\* across iterations: seat_records, party_vote_totals, party_by_seat_records and
\* seat_party_votes.
ProcessSeat(st, seat_id, seat_info, candidates_by_seat, coalitions) ==
    LET seat == [seat_id |-> seat_id,
                 seat_number |-> DictGet(seat_info, "seat_number", None),
                 seat_name |-> DictGet(seat_info, "seat_name", None)]
        candidate_list == DictGet(candidates_by_seat, seat_id, <<>>)
        acc0 == [total_votes |-> 0,
                 coalition_counts |-> [k \in 1..Len(coalitions) |-> <<coalitions[k][1], 0>>],
                 seat_votes_by_party |-> <<>>,
                 candidate_rankings |-> <<>>,
                 party_vote_totals |-> st.party_vote_totals,
                 party_by_seat_records |-> st.party_by_seat_records]
        acc == EntryLoop(ResultDict(seat_info), 1, acc0, seat,
                         CandidatesByDiid(candidate_list, 1, <<>>), coalitions)
    IN [seat_records |-> Append(st.seat_records, SeatRecord(seat, acc)),
        party_vote_totals |-> acc.party_vote_totals,
        party_by_seat_records |-> acc.party_by_seat_records,
        seat_party_votes |-> DictSet(st.seat_party_votes, seat_id, acc.seat_votes_by_party)]

RECURSIVE SeatLoop(_, _, _, _, _)
SeatLoop(constituencies, k, st, candidates_by_seat, coalitions) ==
    IF k > Len(constituencies) THEN st
    ELSE SeatLoop(constituencies, k + 1,
             ProcessSeat(st, constituencies[k][1], constituencies[k][2],
                         candidates_by_seat, coalitions),
             candidates_by_seat, coalitions)

\* for party_name in all_parties: record[party_name] = party_votes.get(party_name, 0)
RECURSIVE AddPartyColumns(_, _, _, _)
AddPartyColumns(record, party_votes, all_parties, k) ==
    IF k > Len(all_parties) THEN record
    ELSE AddPartyColumns(
             DictSet(record, all_parties[k], DictGet(party_votes, all_parties[k], 0)),
             party_votes, all_parties, k + 1)

WithPartyColumns(seat_records, seat_party_votes, all_parties) ==
    [k \in 1..Len(seat_records) |->
        AddPartyColumns(seat_records[k],
            DictGet(seat_party_votes, DictGet(seat_records[k], K_seat_id, None), <<>>),
            all_parties, 1)]

\* PartyTotals breaking ties by party name.
PartyTotalsByName(party_vote_totals) ==
    LET names == Sorted(DictKeys(party_vote_totals))
    IN SortDesc([k \in 1..Len(names) |->
                    <<names[k], DictGet(party_vote_totals, names[k], 0)>>], 2)

\* sorted(party_vote_totals.items(), key=lambda x: x[1], reverse=True)
PartyTotals(party_vote_totals) == SortDesc(party_vote_totals, 2)

compute_results(d, coalitions) ==
    LET constituencies == DictGet(d, "constituencies", <<>>)
        candidates_by_seat == DictGet(d, "candidates", <<>>)
        st == SeatLoop(constituencies, 1,
                       [seat_records |-> <<>>, party_vote_totals |-> <<>>,
                        party_by_seat_records |-> <<>>, seat_party_votes |-> <<>>],
                       candidates_by_seat, coalitions)
    IN [seat_results_df |->
            WithPartyColumns(st.seat_records, st.seat_party_votes,
                             Sorted(DictKeys(st.party_vote_totals))),
        party_totals_df |-> PartyTotals(st.party_vote_totals),
        party_by_seat_df |-> st.party_by_seat_records]

-----------------------------------------------------------------------------
(* scrape_votes.extract_election_data_from_html.                              *)
(* The markup is kept as the list of its script blocks (soup.find_all), each   *)
(* block being its script.string: a text, or None. The members of the embedded *)
(* election object are written as the single character MEMBERS, which stands   *)
(* for the text of a brace-balanced member list and decodes to the object's    *)
(* members (page.embedded).                                                    *)

Q_KEY == <<"\"","e","l","e","c","t","i","o","n","2","0","2","6","\"">>
MEMBERS == "D"

CharAt(s, i) == IF i >= 0 /\ i < Len(s) THEN s[i + 1] ELSE ""

\* json.loads on an object text over the characters of the model: an object is
\* {} or {D} or {"election2026":<object>}. end = -1 is JSONDecodeError.
RECURSIVE DecodeObject(_, _, _)
DecodeObject(s, i, embedded) ==
    IF CharAt(s, i) # "{" THEN [end |-> -1, value |-> <<>>]
    ELSE IF CharAt(s, i + 1) = "}" THEN [end |-> i + 2, value |-> <<>>]
    ELSE IF CharAt(s, i + 1) = MEMBERS /\ CharAt(s, i + 2) = "}"
         THEN [end |-> i + 3, value |-> embedded]
    ELSE IF OccursAt(s, Q_KEY, i + 1) /\ CharAt(s, i + 1 + Len(Q_KEY)) = ":"
         THEN LET inner == DecodeObject(s, i + 2 + Len(Q_KEY), embedded)
              IN IF inner.end # -1 /\ CharAt(s, inner.end) = "}"
                 THEN [end |-> inner.end + 1,
                       value |-> << <<"election2026", inner.value>> >>]
                 ELSE [end |-> -1, value |-> <<>>]
    ELSE [end |-> -1, value |-> <<>>]

json_loads(text, embedded) ==
    LET r == DecodeObject(text, 0, embedded)
    IN IF r.end = Len(text) /\ text # <<>>
       THEN [ok |-> TRUE, value |-> r.value]
       ELSE [ok |-> FALSE, value |-> <<>>]

\* FindScript taking the first script that has text, whatever it holds.
FindScriptAny(scripts) ==
    LET hits == {k \in 1..Len(scripts) : scripts[k] # None /\ scripts[k] # <<>>}
    IN IF hits = {} THEN None
       ELSE scripts[CHOOSE k \in hits : \A j \in hits : k <= j]

\* The first script whose string holds the quoted key, or None.
FindScript(scripts) ==
    LET hits == {k \in 1..Len(scripts) :
                    scripts[k] # None /\ scripts[k] # <<>> /\ Contains(scripts[k], Q_KEY)}
    IN IF hits = {} THEN None
       ELSE scripts[CHOOSE k \in hits : \A j \in hits : k <= j]

\* The scan for the closing brace: the index where depth returns to 0, or -1
\* (brace_end is None) when the text ends first.
RECURSIVE ScanBraces(_, _, _)
ScanBraces(script_content, idx, depth) ==
    IF idx >= Len(script_content) THEN -1
    ELSE LET char == CharAt(script_content, idx)
             d == IF char = "{" THEN depth + 1
                  ELSE IF char = "}" THEN depth - 1 ELSE depth
         IN IF d = 0 THEN idx ELSE ScanBraces(script_content, idx + 1, d)

\* BraceStart taking the first opening brace of the script.
BraceStartAnywhere(script_content) == Find(script_content, <<"{">>, 0)

BraceStart(script_content) ==
    LET start == Find(script_content, Q_KEY, 0)
        colon == Find(script_content, <<":">>, start)
    IN Find(script_content, <<"{">>, colon)

Failure(message) == [ok |-> FALSE, error |-> message, json_text |-> None, data |-> <<>>]

extract_election_data_from_html(scripts, embedded) ==
    LET script_content == FindScript(scripts)
    IN IF script_content = None
       THEN Failure("ValueError: Could not locate election2026 data in the HTML")
       ELSE LET brace_start == BraceStart(script_content)
                brace_end == ScanBraces(script_content, brace_start + 1, 1)
            IN IF Find(script_content, Q_KEY, 0) = -1
               THEN Failure("ValueError: election2026 key not present in script")
               ELSE IF brace_end = -1
               THEN Failure("ValueError: Failed to locate the end of the election2026 JSON object")
               ELSE LET text == Slice(script_content, brace_start, brace_end + 1)
                        decoded == json_loads(text, embedded)
                    IN IF decoded.ok
                       THEN [ok |-> TRUE, error |-> "", json_text |-> text,
                             data |-> decoded.value]
                       ELSE [ok |-> FALSE,
                             error |-> "ValueError: Failed to decode election data",
                             json_text |-> text, data |-> <<>>]

-----------------------------------------------------------------------------
(* scrape_votes.download_tbs_page: env.view_source and env.normal are what the *)
(* two requests answer: "exception", "rejected" (not ok, or at most 10000      *)
(* characters) or "page".                                                      *)

\* download_tbs_page asking for the normal URL a second time when it fails.
download_tbs_page_retry(e, served) ==
    IF e.view_source = "page" THEN [text |-> Html(served), requests |-> 1]
    ELSE IF e.normal = "page" THEN [text |-> Html(served), requests |-> 2]
    ELSE [text |-> NoHtml, requests |-> 3]

download_tbs_page(e, served) ==
    IF e.view_source = "page" THEN [text |-> Html(served), requests |-> 1]
    ELSE IF e.normal = "page" THEN [text |-> Html(served), requests |-> 2]
    ELSE [text |-> NoHtml, requests |-> 2]

-----------------------------------------------------------------------------
(* Inputs: the coalition configuration, the pages and the election payloads.   *)

MaxSeats == 2       \* constituencies of a payload
MaxEntries == 3     \* election_results entries of a payload, over all its seats
MaxRanked == 4      \* election_results entries of the one seat of a ranking payload
MaxPieces == 5      \* pieces of text of a page's last script block

\* config/coalitions.json as json.load returns it.
ConfigFile ==
    << << <<"a","l">>, << <<"display_name", <<"A","l">> >>,
                          <<"keywords", << <<"A">> >> >> >> >>,
       << <<"b","e">>, << <<"keywords", << <<"b">>, <<"A","B">> >> >> >> >>,
       << <<"u","n">>, << <<"keywords", << <<"U","n","k">> >> >> >> >>,
       << <<"n","o">>, << <<"display_name", <<"N","o">> >> >> >> >>

SeatIds == <<"s1", "s2", "s3", "s4">>
DiidNames == <<"d1", "d2", "d3", "d4", "d5", "d6">>
SeatNames == << <<"D","h","a","k","a","-","1">>,
                <<"C","h","a","t","t","o","g","r","a","m","-","2">>,
                <<"P","a","r","b","a","t","y","a"," ","x">>,
                <<"D","h","a","k","a","-","1">> >>

\* The candidate record of a diid, by profile; profile 3 has no record.
CandidateRecord(profile, diid) ==
    CASE profile = 1 ->
           << <<"diid", diid>>, <<"party", <<"a","b">> >>,
              <<"candidate_name", <<"N","1">> >> >>
      [] profile = 2 ->
           << <<"diid", diid>>, <<"party", <<"B">> >> >>
      [] profile = 4 ->
           << <<"diid", diid>>, <<"party", <<"A","b">> >>,
              <<"candidate_name", <<>> >>, <<"name", <<" ","N","2">> >> >>
      [] profile = 5 ->
           << <<"diid", diid>>, <<"party", <<>> >>,
              <<"full_name", <<"N","3">> >> >>

ProfileOf(seat, entry) == ((seat + entry - 2) % 5) + 1

\* The candidates list of a seat: a stale record for the first diid, then one
\* record per diid whose profile has one.
RECURSIVE CandidateListFrom(_, _)
CandidateListFrom(seat, entry) ==
    IF entry > Len(DiidNames) THEN <<>>
    ELSE (IF ProfileOf(seat, entry) = 3 THEN <<>>
          ELSE <<CandidateRecord(ProfileOf(seat, entry), DiidNames[entry])>>)
         \o CandidateListFrom(seat, entry + 1)

CandidateList(seat) ==
    << << <<"diid", DiidNames[1]>>, <<"party", <<"Z","z">> >>,
          <<"name", <<"O","l","d">> >> >> >>
    \o CandidateListFrom(seat, 1)

\* A vote count, or no count (null at odd positions, no votes key at even ones).
VoteChoices == {NoneInt, 0, 1, 2}
ResultOf(entry, votes) ==
    IF votes = NoneInt /\ entry % 2 = 0 THEN <<>> ELSE << <<"votes", votes>> >>

\* A seat's election_results: "dict" with one entry per vote choice, "list",
\* or "absent" (no election_results key, in one-seat payloads only).
SeatShapes(maxEntries) ==
    {[kind |-> "list", votes |-> <<>>]}
    \cup UNION {{[kind |-> "dict", votes |-> v] : v \in [1..n -> VoteChoices]} :
                   n \in 0..maxEntries}

RECURSIVE PayloadShapes(_, _)
PayloadShapes(maxSeats, maxEntries) ==
    IF maxSeats = 0 THEN {<<>>}
    ELSE {<<>>} \cup
         UNION {{<<shape>> \o rest :
                    rest \in PayloadShapes(maxSeats - 1, maxEntries - Len(shape.votes))} :
                shape \in SeatShapes(maxEntries)}

SeatInfo(seat, shape) ==
    << <<"seat_number", seat>>, <<"seat_name", SeatNames[seat]>> >>
    \o (IF shape.kind = "absent" THEN <<>>
        ELSE << <<"election_results",
                  [kind |-> shape.kind,
                   items |-> [e \in 1..Len(shape.votes) |->
                                 <<DiidNames[e], ResultOf(e, shape.votes[e])>>]]>> >>)

Constituencies(shapes) ==
    [k \in 1..Len(shapes) |-> <<SeatIds[k], SeatInfo(k, shapes[k])>>]

Candidates(shapes) ==
    [k \in 1..Len(shapes) |-> <<SeatIds[k], CandidateList(k)>>]

\* The payload of the given seats; either top-level key may be missing.
Payload(shapes, hasConstituencies, hasCandidates) ==
    (IF hasConstituencies THEN << <<"constituencies", Constituencies(shapes)>> >> ELSE <<>>)
    \o (IF hasCandidates THEN << <<"candidates", Candidates(shapes)>> >> ELSE <<>>)

Payloads ==
    {Payload(shapes, TRUE, TRUE) : shapes \in PayloadShapes(MaxSeats, MaxEntries)}
    \cup {Payload(shapes, TRUE, FALSE) : shapes \in PayloadShapes(MaxSeats, MaxEntries - 1)}
    \cup {Payload(<<>>, FALSE, TRUE), Payload(<<>>, FALSE, FALSE)}
    \cup {Payload(<< [kind |-> "dict", votes |-> v] >>, TRUE, TRUE) :
             v \in UNION {[1..n -> VoteChoices] : n \in 0..MaxRanked}}
    \cup {Payload(<< [kind |-> "absent", votes |-> <<>>] >>, TRUE, hasCandidates) :
             hasCandidates \in BOOLEAN}

PagePayload == Payload(<< [kind |-> "dict", votes |-> <<2, NoneInt, 1>>] >>, TRUE, TRUE)
FewPayloads == {PagePayload, Payload(<<>>, FALSE, TRUE)}

\* Script texts: concatenations of pieces.
Pieces == {Q_KEY, <<":">>, <<"{">>, <<"}">>, <<MEMBERS>>}
RECURSIVE Texts(_)
Texts(maxPieces) ==
    IF maxPieces = 0 THEN {<<>>}
    ELSE {<<>>} \cup {piece \o t : piece \in Pieces, t \in Texts(maxPieces - 1)}

T_object == Q_KEY \o <<":", "{", MEMBERS, "}">>
T_empty_object == Q_KEY \o <<":", "{", "}">>
T_nested == <<"{">> \o Q_KEY \o <<":", "{">> \o Q_KEY \o <<":", "{", MEMBERS, "}", "}", "}">>
T_unclosed == Q_KEY \o <<":", "{", "{", "}">>
T_bad_json == Q_KEY \o <<":", "{", ":", "}">>

\* A page has at most one script block before its last one.
LeadScripts == {None, <<"{", "}">>, T_empty_object}
Leads == {<<>>} \cup {<<script>> : script \in LeadScripts}

Markups == {lead \o <<t>> : lead \in Leads, t \in Texts(MaxPieces)} \cup {<<>>}

FewMarkups ==
    {<<T_object>>, <<None, T_nested>>, <<T_unclosed>>, <<T_bad_json>>,
     << <<"{", "}">> >>, <<T_empty_object, T_object>>}

NetOutcomes == {"exception", "rejected", "page"}
Envs == [url : BOOLEAN, view_source : NetOutcomes, normal : NetOutcomes,
         local : BOOLEAN, save_html : BOOLEAN]
LiveEnv == [url |-> TRUE, view_source |-> "exception", normal |-> "page",
            local |-> TRUE, save_html |-> FALSE]
LocalEnv == [url |-> FALSE, view_source |-> "exception", normal |-> "exception",
             local |-> TRUE, save_html |-> FALSE]

-----------------------------------------------------------------------------
(* scrape_votes.main *)

SEAT_CSV == "seat_results.csv"
PARTY_CSV == "party_totals.csv"
PARTY_BY_SEAT_CSV == "party_by_seat.csv"
DOWNLOADED_HTML == "tbs_election_2026_downloaded.html"
ResultFiles == {SEAT_CSV, PARTY_CSV, PARTY_BY_SEAT_CSV}

coalitions == load_coalitions(ConfigFile)

IdleNorm == n_name = <<>> /\ n_trace = <<>>
IdleMap == m_pc = "idle" /\ m_results = <<>> /\ m_geojson = <<>> /\ m_seat_data = <<>>
           /\ m_i = 0

InitMain ==
    /\ pc = "start"
    /\ html_text = NoHtml
    /\ html_source = "none"
    /\ requests = 0
    /\ json_text = None
    /\ data = <<>>
    /\ seat_df = <<>>
    /\ party_totals_df = <<>>
    /\ party_by_seat_df = <<>>
    /\ files = {}
    /\ error = ""
    /\ IdleNorm
    /\ IdleMap

\* Every environment on a few pages, and every payload on a page served live.
Init ==
    /\ \/ /\ env \in Envs
          /\ page \in [scripts : FewMarkups, embedded : FewPayloads]
       \/ /\ env = LiveEnv
          /\ page \in [scripts : {<<T_object>>}, embedded : Payloads]
    /\ InitMain

\* Every markup, served live or read from the local copy.
InitPage ==
    /\ env \in {LiveEnv, LocalEnv}
    /\ page \in [scripts : Markups \cup FewMarkups, embedded : {PagePayload}]
    /\ InitMain

\* if args.url: html_text = download_tbs_page(args.url); save it if asked to.
Fetch ==
    /\ pc = "start"
    /\ pc' = "fetched"
    /\ IF env.url
       THEN LET got == download_tbs_page(env, page.scripts)
            IN /\ html_text' = got.text
               /\ requests' = requests + got.requests
               /\ html_source' = IF got.text # NoHtml THEN "network" ELSE html_source
               /\ files' = IF got.text # NoHtml /\ env.save_html
                           THEN files \cup {DOWNLOADED_HTML} ELSE files
       ELSE UNCHANGED <<html_text, requests, html_source, files>>
    /\ UNCHANGED <<env, page, json_text, data, seat_df, party_totals_df,
                   party_by_seat_df, error, normVars, mapVars>>

\* if not html_text: read the local copy, or raise RuntimeError.
Fallback ==
    /\ pc = "fetched"
    /\ IF html_text # NoHtml
       THEN /\ pc' = "have_html"
            /\ UNCHANGED <<html_text, html_source, error>>
       ELSE IF env.local
            THEN /\ pc' = "have_html"
                 /\ html_text' = Html(page.scripts)
                 /\ html_source' = "local"
                 /\ UNCHANGED error
            ELSE /\ pc' = "failed"
                 /\ error' = "RuntimeError"
                 /\ UNCHANGED <<html_text, html_source>>
    /\ UNCHANGED <<env, page, requests, json_text, data, seat_df, party_totals_df,
                   party_by_seat_df, files, normVars, mapVars>>

\* data = extract_election_data_from_html(html_text)
Extract ==
    /\ pc = "have_html"
    /\ LET r == extract_election_data_from_html(html_text[1], page.embedded)
       IN /\ json_text' = r.json_text
          /\ data' = r.data
          /\ error' = r.error
          /\ pc' = IF r.ok THEN "extracted" ELSE "failed"
    /\ UNCHANGED <<env, page, html_text, html_source, requests, seat_df,
                   party_totals_df, party_by_seat_df, files, normVars, mapVars>>

\* seat_df, party_totals_df, party_by_seat_df = compute_results(data, coalitions)
Compute ==
    /\ pc = "extracted"
    /\ LET r == compute_results(data, coalitions)
       IN /\ seat_df' = r.seat_results_df
          /\ party_totals_df' = r.party_totals_df
          /\ party_by_seat_df' = r.party_by_seat_df
    /\ pc' = "computed"
    /\ UNCHANGED <<env, page, html_text, html_source, requests, json_text, data,
                   files, error, normVars, mapVars>>

\* The three to_csv calls.
WriteCsvs ==
    /\ pc = "computed"
    /\ files' = files \cup ResultFiles
    /\ pc' = "done"
    /\ UNCHANGED <<env, page, html_text, html_source, requests, json_text, data,
                   seat_df, party_totals_df, party_by_seat_df, error, normVars, mapVars>>

Next == Fetch \/ Fallback \/ Extract \/ Compute \/ WriteCsvs

Spec == Init /\ [][Next]_vars
SpecPage == InitPage /\ [][Next]_vars

-----------------------------------------------------------------------------
(* normalize_seat_name applied to a name, then to its own result. *)

MaxParts == 3       \* parts of a name
MaxCalls == 2       \* applications of normalize_seat_name in a row

NameParts == {W_parbatya_, <<"C","h","a","t","t","o">>, <<"g","r","a","m">>,
              <<" ">>, <<"-","1">>, <<"x">>, <<"(">>}
RECURSIVE Names(_)
Names(maxParts) ==
    IF maxParts = 0 THEN {<<>>}
    ELSE {<<>>} \cup {part \o n : part \in NameParts, n \in Names(maxParts - 1)}

IdleMain ==
    /\ pc = "idle"
    /\ env = LocalEnv
    /\ page = [scripts |-> <<>>, embedded |-> <<>>]
    /\ html_text = NoHtml
    /\ html_source = "none"
    /\ requests = 0
    /\ json_text = None
    /\ data = <<>>
    /\ seat_df = <<>>
    /\ party_totals_df = <<>>
    /\ party_by_seat_df = <<>>
    /\ files = {}
    /\ error = ""

InitNorm ==
    /\ n_name \in Names(MaxParts) \cup {None}
    /\ n_trace = <<>>
    /\ IdleMain
    /\ IdleMap

Normalize ==
    /\ Len(n_trace) < MaxCalls
    /\ n_trace' = Append(n_trace, normalize_seat_name(n_name))
    /\ n_name' = normalize_seat_name(n_name)
    /\ UNCHANGED <<scrapeVars, mapVars>>

NextNorm == Normalize

SpecNorm == InitNorm /\ [][NextNorm]_vars

-----------------------------------------------------------------------------
(* build_map: the join of the seat rows onto the features (one call).         *)
(* A row of results_df is a dict of its cells; an empty CSV cell reads as NaN. *)
(* A feature is a dict that may hold a "properties" dict.                     *)

MaxRows == 2        \* rows of results_df
MaxFeatures == 2    \* features of the feature collection

NaN == <<"NaN">>
T_nan == <<"n","a","n">>
T_None == <<"N","o","n","e">>
\* str(value) of a cell or property
Str(value) == IF value = NaN THEN T_nan ELSE IF value = None THEN T_None ELSE value
\* pd.isna(value)
IsNa(value) == value = NaN

\* The cells of row k that do not depend on k: seat_name, top_three_candidates, top_three.
RowChoices ==
    { << <<"D","h","a","k","a","-","1">>, <<"C">>, <<"P">> >>,
      << <<" ","D","H","A","K","A","-","1">>, NaN, <<"P">> >>,
      << <<"C","h","a","t","t","o","g","r","a","m","-","2">>, NaN, NaN >>,
      << <<"C","h","i","t","t","a","g","o","n","g","-","2">>, <<"C">>, NaN >>,
      << <<"(",")">>, <<"C">>, <<"P">> >>,
      << NaN, <<"C">>, <<"P">> >> }

DigitChars == <<"1","2","3","4","5","6","7","8","9">>

\* Row k: its ratio, votes and top-three texts tell the rows apart.
Row(k, choice) ==
    << <<"seat_name", choice[1]>>, <<"total_votes", 4>>,
       <<"top_three_candidates",
         IF choice[2] = NaN THEN NaN ELSE choice[2] \o <<DigitChars[k]>> >>,
       <<"top_three", IF choice[3] = NaN THEN NaN ELSE choice[3] \o <<DigitChars[k]>> >>,
       <<"ratio", Quotient(k, 4)>>, <<"votes", k>> >>

FeatureProperties ==
    { << <<"cst_n", <<"D","h","a","k","a","-","1",".">> >> >>,
      << <<"cst_n", <<" ","C","h","i","t","t","a","g","o","n","g","-","2">> >> >>,
      << <<"cst_n", <<"K","h","u","l","n","a","-","3">> >> >>,
      << <<"cst_n", <<"(","!",")">> >> >>,
      << <<"cst_n", None>> >>,
      << <<"id", <<"7">> >> >> }
FeatureChoices == {<< <<"properties", props>> >> : props \in FeatureProperties} \cup {<<>>}

RowLists == UNION {{[k \in 1..n |-> Row(k, c[k])] : c \in [1..n -> RowChoices]} :
                      n \in 0..MaxRows}
FeatureLists == UNION {[1..n -> FeatureChoices] : n \in 0..MaxFeatures}

InitMap ==
    /\ m_pc = "rows"
    /\ m_results \in RowLists
    /\ m_geojson \in FeatureLists
    /\ m_seat_data = <<>>
    /\ m_i = 1
    /\ IdleMain
    /\ IdleNorm

\* top_three_candidates or top_three_parties or ''
FirstTruthy(a, b) == IF Truthy(a) THEN a ELSE IF Truthy(b) THEN b ELSE <<>>

\* The entry of seat_data made from a row (ratio_col and votes_col are the
\* columns "ratio" and "votes" of the row).
SeatDataEntry(row) ==
    LET top_three_candidates ==
            IF IsNa(DictGet(row, "top_three_candidates", None)) THEN <<>>
            ELSE DictGet(row, "top_three_candidates", None)
        top_three_parties ==
            IF IsNa(DictGet(row, "top_three", None)) THEN <<>>
            ELSE DictGet(row, "top_three", None)
    IN << <<"ratio", DictGet(row, "ratio", Zero)>>,
          <<"votes", DictGet(row, "votes", 0)>>,
          <<"total_votes", DictGet(row, "total_votes", None)>>,
          <<"seat_name", DictGet(row, "seat_name", None)>>,
          <<"top_three", FirstTruthy(top_three_candidates, top_three_parties)>> >>

\* AddRow keeping the entry of the first row of a key.
AddRowKeepFirst(seat_data, row) ==
    LET seat_key == normalize_seat_name(Str(DictGet(row, "seat_name", None)))
    IN IF seat_key = <<>> \/ DictHas(seat_data, seat_key) THEN seat_data
       ELSE DictSet(seat_data, seat_key, SeatDataEntry(row))

\* One iteration of the loop over results_df.iterrows().
AddRow(seat_data, row) ==
    LET seat_key == normalize_seat_name(Str(DictGet(row, "seat_name", None)))
    IN IF seat_key = <<>> THEN seat_data
       ELSE DictSet(seat_data, seat_key, SeatDataEntry(row))

\* str(feature.get('properties', {}).get('cst_n', '')).strip()
FeatureName(feature) ==
    Strip(Str(DictGet(DictGet(feature, "properties", <<>>), "cst_n", <<>>)))

\* feature['properties'][key] = value
SetProperty(feature, key, value) ==
    DictSet(feature, "properties", DictSet(DictGet(feature, "properties", <<>>), key, value))

\* JoinedFeature leaving an unmatched feature without ratio and top_three.
JoinedFeatureNoDefault(seat_data, feature) ==
    LET seat_key == normalize_seat_name(FeatureName(feature))
    IN IF seat_key = <<>> THEN feature
       ELSE LET keyed == SetProperty(feature, "seat_key", seat_key)
            IN IF DictHas(seat_data, seat_key)
               THEN LET d == DictGet(seat_data, seat_key, <<>>)
                    IN SetProperty(SetProperty(SetProperty(keyed,
                           "ratio", DictGet(d, "ratio", None)),
                           "top_three", DictGet(d, "top_three", None)),
                           "seat_name", DictGet(d, "seat_name", None))
               ELSE keyed

\* One iteration of the loop over geojson['features'].
JoinedFeature(seat_data, feature) ==
    LET seat_key == normalize_seat_name(FeatureName(feature))
    IN IF seat_key = <<>> THEN feature
       ELSE LET keyed == SetProperty(feature, "seat_key", seat_key)
            IN IF DictHas(seat_data, seat_key)
               THEN LET d == DictGet(seat_data, seat_key, <<>>)
                    IN SetProperty(SetProperty(SetProperty(keyed,
                           "ratio", DictGet(d, "ratio", None)),
                           "top_three", DictGet(d, "top_three", None)),
                           "seat_name", DictGet(d, "seat_name", None))
               ELSE SetProperty(SetProperty(keyed, "ratio", Zero), "top_three", <<>>)

JoinRow ==
    /\ m_pc = "rows"
    /\ m_i <= Len(m_results)
    /\ m_seat_data' = AddRow(m_seat_data, m_results[m_i])
    /\ m_i' = m_i + 1
    /\ UNCHANGED <<m_pc, m_results, m_geojson, scrapeVars, normVars>>

RowsDone ==
    /\ m_pc = "rows"
    /\ m_i > Len(m_results)
    /\ m_pc' = "features"
    /\ m_i' = 1
    /\ UNCHANGED <<m_results, m_geojson, m_seat_data, scrapeVars, normVars>>

JoinFeature ==
    /\ m_pc = "features"
    /\ m_i <= Len(m_geojson)
    /\ m_geojson' = [m_geojson EXCEPT ![m_i] = JoinedFeature(m_seat_data, m_geojson[m_i])]
    /\ m_i' = m_i + 1
    /\ UNCHANGED <<m_pc, m_results, m_seat_data, scrapeVars, normVars>>

FeaturesDone ==
    /\ m_pc = "features"
    /\ m_i > Len(m_geojson)
    /\ m_pc' = "joined"
    /\ UNCHANGED <<m_i, m_results, m_geojson, m_seat_data, scrapeVars, normVars>>

NextMap == JoinRow \/ RowsDone \/ JoinFeature \/ FeaturesDone

SpecMap == InitMap /\ [][NextMap]_vars

-----------------------------------------------------------------------------
(* What a run of main must have produced, read off the decoded payload.       *)

Computed == pc \in {"computed", "done"}
InConstituencies == DictGet(data, "constituencies", <<>>)
InCandidates == DictGet(data, "candidates", <<>>)
SeatCount == Len(InConstituencies)

\* The election_results entries of seat k; none unless they form a dict.
EntriesOf(k) ==
    LET info == InConstituencies[k][2]
    IN IF DictHas(info, "election_results")
          /\ DictGet(info, "election_results", <<>>).kind = "dict"
       THEN DictGet(info, "election_results", <<>>).items
       ELSE <<>>

HasVotes(entry) ==
    DictHas(entry[2], "votes") /\ DictGet(entry[2], "votes", NoneInt) # NoneInt
VotesOf(entry) == DictGet(entry[2], "votes", 0)
CountedOf(k) == SelectSeq(EntriesOf(k), HasVotes)

RECURSIVE SumVotes(_)
SumVotes(entries) ==
    IF entries = <<>> THEN 0 ELSE VotesOf(Head(entries)) + SumVotes(Tail(entries))

\* The candidate record an entry resolves to: the last one of its diid in the
\* seat's candidates list, or an empty record.
ResolvedRecord(k, entry) ==
    LET list == DictGet(InCandidates, InConstituencies[k][1], <<>>)
        mine == {i \in 1..Len(list) : DictGet(list[i], "diid", "") = entry[1]}
    IN IF mine = {} THEN <<>>
       ELSE list[CHOOSE i \in mine : \A j \in mine : j <= i]

ResolvedParty(k, entry) ==
    LET party == DictGet(ResolvedRecord(k, entry), "party", <<>>)
    IN IF party = <<>> THEN UNKNOWN ELSE party

ResolvedName(k, entry) ==
    LET record == ResolvedRecord(k, entry)
        named == {i \in 1..Len(NameKeys) : DictGet(record, NameKeys[i], <<>>) # <<>>}
    IN IF named = {} THEN Unknown
       ELSE Strip(DictGet(record, NameKeys[CHOOSE i \in named : \A j \in named : i <= j],
                          <<>>))

\* The fields of the record of seat k.
HasField(k, key) == DictHas(seat_df[k], key)
TotalVotes(k) == DictGet(seat_df[k], K_total_votes, NoneInt)
CoalitionVotes(k, code) == DictGet(seat_df[k], VotesKey(code), NoneInt)
CoalitionRatio(k, code) == DictGet(seat_df[k], RatioKey(code), <<>>)
TopCandidates(k) == DictGet(seat_df[k], K_top_three_candidates, <<>>)
TopParties(k) == DictGet(seat_df[k], K_top_three, <<>>)
Codes == {ConfigFile[c][1] : c \in 1..Len(ConfigFile)}

-----------------------------------------------------------------------------
\* C1: every seat record whose total_votes is 0 holds, for every coalition, a
\* ratio that is the number zero (never a division by zero, never missing), and
\* its two top-three fields are empty.
C1_ZeroTotalSeat ==
    Computed =>
        \A k \in 1..Len(seat_df) :
            TotalVotes(k) = 0 =>
                /\ \A code \in Codes :
                      /\ HasField(k, RatioKey(code))
                      /\ CoalitionRatio(k, code)[1] = 0
                      /\ CoalitionRatio(k, code)[2] # 0
                /\ HasField(k, K_top_three_candidates) /\ TopCandidates(k) = <<>>
                /\ HasField(k, K_top_three) /\ TopParties(k) = <<>>

\* A seat whose counted votes sum to 0 beside a seat with list-shaped results.
C1_Witness ==
    /\ pc = "computed"
    /\ Len(seat_df) = 2
    /\ TotalVotes(1) = 0 /\ Len(CountedOf(1)) >= 1 /\ Len(EntriesOf(1)) > Len(CountedOf(1))
    /\ DictGet(InConstituencies[2][2], "election_results", <<>>).kind = "list"
    /\ TotalVotes(2) = 0

-----------------------------------------------------------------------------
\* C2: in every seat record each coalition's votes are between 0 and the seat's
\* total_votes, and when total_votes > 0 each coalition's ratio is a quotient
\* n/d with 0 <= n <= d and d > 0, a number in [0, 1].
C2_CoalitionWithinTotal ==
    Computed =>
        \A k \in 1..Len(seat_df) : \A code \in Codes :
            /\ 0 <= CoalitionVotes(k, code)
            /\ CoalitionVotes(k, code) <= TotalVotes(k)
            /\ TotalVotes(k) > 0 =>
                  /\ CoalitionRatio(k, code)[2] > 0
                  /\ 0 <= CoalitionRatio(k, code)[1]
                  /\ CoalitionRatio(k, code)[1] <= CoalitionRatio(k, code)[2]

\* A seat where one coalition holds every vote, through a party that matches two
\* of its keywords, and another coalition holds some but not all.
C2_Witness ==
    /\ pc = "computed"
    /\ \E k \in 1..Len(seat_df) :
          /\ TotalVotes(k) > 0
          /\ CoalitionVotes(k, <<"b","e">>) = TotalVotes(k)
          /\ CoalitionVotes(k, <<"a","l">>) > 0
          /\ CoalitionVotes(k, <<"a","l">>) < TotalVotes(k)
          /\ \E i \in 1..Len(CountedOf(k)) :
                /\ VotesOf(CountedOf(k)[i]) > 0
                /\ ResolvedParty(k, CountedOf(k)[i]) = <<"a","b">>

-----------------------------------------------------------------------------
\* C3: normalize_seat_name applied to its own result returns that result.
C3_Idempotent == Len(n_trace) >= 2 => n_trace[2] = n_trace[1]

-----------------------------------------------------------------------------
\* C4: a seat's total_votes is the sum of the vote counts of its entries that
\* have one, and the three outputs are those of the payload with every entry
\* without a vote count taken out: such an entry adds nothing to any total,
\* count, row or ranking, and raises no error.
DropNullEntries(seat_info) ==
    IF DictHas(seat_info, "election_results")
       /\ DictGet(seat_info, "election_results", <<>>).kind = "dict"
    THEN DictSet(seat_info, "election_results",
                 [kind |-> "dict",
                  items |-> SelectSeq(DictGet(seat_info, "election_results", <<>>).items,
                                      HasVotes)])
    ELSE seat_info

WithoutNullEntries(d) ==
    IF DictHas(d, "constituencies")
    THEN DictSet(d, "constituencies",
                 [k \in 1..Len(DictGet(d, "constituencies", <<>>)) |->
                     <<DictGet(d, "constituencies", <<>>)[k][1],
                       DropNullEntries(DictGet(d, "constituencies", <<>>)[k][2])>>])
    ELSE d

RowsOfSeat(seat_id) ==
    SelectSeq(party_by_seat_df, LAMBDA row : row.seat_id = seat_id)

C4_NullVotesSkipped ==
    Computed =>
        /\ error = ""
        /\ Len(seat_df) = SeatCount
        /\ \A k \in 1..Len(seat_df) :
              /\ TotalVotes(k) = SumVotes(CountedOf(k))
              /\ Len(RowsOfSeat(InConstituencies[k][1])) = Len(CountedOf(k))
              /\ TotalVotes(k) > 0 => Len(TopCandidates(k)) = Min(3, Len(CountedOf(k)))
        /\ LET r == compute_results(WithoutNullEntries(data), coalitions)
           IN /\ seat_df = r.seat_results_df
              /\ party_totals_df = r.party_totals_df
              /\ party_by_seat_df = r.party_by_seat_df

\* A seat with an entry whose votes are null, one without a votes key and one
\* that is counted.
C4_Witness ==
    /\ pc = "computed"
    /\ \E k \in 1..Len(seat_df) :
          /\ TotalVotes(k) > 0
          /\ \E i \in 1..Len(EntriesOf(k)) :
                /\ DictHas(EntriesOf(k)[i][2], "votes")
                /\ DictGet(EntriesOf(k)[i][2], "votes", 0) = NoneInt
          /\ \E i \in 1..Len(EntriesOf(k)) : ~DictHas(EntriesOf(k)[i][2], "votes")

-----------------------------------------------------------------------------
\* C5: for every seat and coalition, the coalition's votes are the sum of the
\* votes of the counted entries whose resolved party name, lower-cased, contains
\* one of the coalition's keywords, lower-cased; each coalition is summed on
\* its own, so a party matching several coalitions counts in full for each.
KeywordsOf(c) == DictGet(ConfigFile[c][2], "keywords", <<>>)
Matches(c, party) ==
    \E i \in 1..Len(KeywordsOf(c)) : Contains(Lower(party), Lower(KeywordsOf(c)[i]))
MatchedOf(k, c) ==
    SelectSeq(CountedOf(k), LAMBDA entry : Matches(c, ResolvedParty(k, entry)))

C5_CoalitionCounts ==
    Computed =>
        \A k \in 1..Len(seat_df) : \A c \in 1..Len(ConfigFile) :
            CoalitionVotes(k, ConfigFile[c][1]) = SumVotes(MatchedOf(k, c))

\* A seat with a party counted for two coalitions, one counted for one of them
\* only, and one counted for a third.
C5_Witness ==
    /\ pc = "computed"
    /\ \E k \in 1..Len(seat_df) :
          /\ CoalitionVotes(k, <<"a","l">>) > 0
          /\ CoalitionVotes(k, <<"b","e">>) > CoalitionVotes(k, <<"a","l">>)
          /\ CoalitionVotes(k, <<"u","n">>) > 0
          /\ CoalitionVotes(k, <<"n","o">>) = 0

-----------------------------------------------------------------------------
\* C6: when no script block of the markup holds the quoted key, extraction
\* raises its ValueError and returns nothing: the run never gets past
\* extraction and writes none of the three result CSV files.
NoKeyInMarkup ==
    \A k \in 1..Len(page.scripts) :
        page.scripts[k] = None \/ ~Contains(page.scripts[k], Q_KEY)

C6_MissingKeyFails ==
    NoKeyInMarkup =>
        /\ pc \in {"start", "fetched", "have_html", "failed"}
        /\ files \cap ResultFiles = {}
        /\ data = <<>>
        /\ json_text = None
        /\ pc = "failed" =>
              error = "ValueError: Could not locate election2026 data in the HTML"

\* A failed run on markup whose scripts hold a braced object but not the key.
C6_Witness ==
    /\ NoKeyInMarkup
    /\ pc = "failed"
    /\ \E k \in 1..Len(page.scripts) :
          page.scripts[k] # None /\ Contains(page.scripts[k], <<"{", MEMBERS, "}">>)

-----------------------------------------------------------------------------
\* C7: for every seat with total_votes > 0 the two top-three fields list the
\* counted entries of rank 1 to 3, the rank of an entry being one more than the
\* number of counted entries with more votes, or with as many votes and met
\* earlier in election_results.
Outranks(counted, j, i) ==
    \/ VotesOf(counted[j]) > VotesOf(counted[i])
    \/ VotesOf(counted[j]) = VotesOf(counted[i]) /\ j < i
RankOf(counted, i) == 1 + Cardinality({j \in 1..Len(counted) : Outranks(counted, j, i)})

C7_TopThree ==
    Computed =>
        \A k \in 1..Len(seat_df) :
            TotalVotes(k) > 0 =>
                LET counted == CountedOf(k)
                IN
                /\ Len(TopCandidates(k)) = Min(3, Len(counted))
                /\ Len(TopParties(k)) = Min(3, Len(counted))
                /\ \A i \in 1..Len(counted) :
                      RankOf(counted, i) <= 3 =>
                          LET entry == counted[i]
                              listed == TopCandidates(k)[RankOf(counted, i)]
                              party == TopParties(k)[RankOf(counted, i)]
                          IN /\ listed.name = ResolvedName(k, entry)
                             /\ listed.party = ResolvedParty(k, entry)
                             /\ listed.pct10 = Pct10(VotesOf(entry), TotalVotes(k))
                             /\ party.party = ResolvedParty(k, entry)
                             /\ party.pct10 = Pct10(VotesOf(entry), TotalVotes(k))

\* Four counted entries: the second and fourth tie for the lead, the first and
\* third tie behind them, and the third is left out.
C7_Witness ==
    /\ pc = "computed"
    /\ \E k \in 1..Len(seat_df) :
          /\ Len(CountedOf(k)) = 4
          /\ RankOf(CountedOf(k), 2) = 1 /\ RankOf(CountedOf(k), 4) = 2
          /\ RankOf(CountedOf(k), 1) = 3 /\ RankOf(CountedOf(k), 3) = 4
          /\ VotesOf(CountedOf(k)[1]) = VotesOf(CountedOf(k)[3])
          /\ VotesOf(CountedOf(k)[2]) = VotesOf(CountedOf(k)[4])
          /\ Len(TopCandidates(k)) = 3

-----------------------------------------------------------------------------
\* C8: party_totals_df has one row per distinct resolved party of the counted
\* entries, holding the sum of the party's counted votes over all seats; the
\* row of a party comes after the rows of exactly the parties with a larger
\* sum, or with an equal sum and first seen earlier.
RECURSIVE CountedFrom(_)
CountedFrom(k) ==
    IF k > SeatCount THEN <<>>
    ELSE LET counted == CountedOf(k)
         IN [i \in 1..Len(counted) |->
                <<ResolvedParty(k, counted[i]), VotesOf(counted[i])>>]
            \o CountedFrom(k + 1)
AllCounted == CountedFrom(1)
FirstSeen(all, party) ==
    CHOOSE i \in 1..Len(all) :
        all[i][1] = party /\ \A j \in 1..(i - 1) : all[j][1] # party
RECURSIVE SumOfParty(_, _, _)
SumOfParty(all, party, k) ==
    IF k > Len(all) THEN 0
    ELSE (IF all[k][1] = party THEN all[k][2] ELSE 0) + SumOfParty(all, party, k + 1)

C8_PartyTotals ==
    Computed =>
        LET all == AllCounted
            seen == {all[i][1] : i \in 1..Len(all)}
            sum == [p \in seen |-> SumOfParty(all, p, 1)]
            first == [p \in seen |-> FirstSeen(all, p)]
            rank == [p \in seen |->
                        1 + Cardinality({q \in seen :
                                \/ sum[q] > sum[p]
                                \/ sum[q] = sum[p] /\ first[q] < first[p]})]
        IN /\ Len(party_totals_df) = Cardinality(seen)
           /\ \A p \in seen : party_totals_df[rank[p]] = <<p, sum[p]>>

\* Two parties with equal totals, the one first seen being the later one by
\* name, and one of them counted in two seats.
C8_Witness ==
    /\ pc = "computed"
    /\ Len(party_totals_df) >= 2
    /\ party_totals_df[1][2] = party_totals_df[2][2]
    /\ StrLess(party_totals_df[2][1], party_totals_df[1][1])
    /\ \E i, j \in 1..Len(party_by_seat_df) :
          /\ party_by_seat_df[i].seat_id # party_by_seat_df[j].seat_id
          /\ party_by_seat_df[i].party = party_by_seat_df[j].party
          /\ party_by_seat_df[i].votes > 0 /\ party_by_seat_df[j].votes > 0

-----------------------------------------------------------------------------
\* C9: compute_results raises nothing on a payload without the constituencies
\* key or without the candidates key. Without constituencies the three outputs
\* are empty; without candidates there is one seat record per constituency, in
\* order, whose total_votes is the sum of the seat's vote counts, and every
\* counted vote is under the party UNKNOWN.
RECURSIVE SumCounted(_, _)
SumCounted(all, k) == IF k > Len(all) THEN 0 ELSE all[k][2] + SumCounted(all, k + 1)

C9_MissingKeys ==
    Computed =>
        /\ error = ""
        /\ ~DictHas(data, "constituencies") =>
              seat_df = <<>> /\ party_totals_df = <<>> /\ party_by_seat_df = <<>>
        /\ ~DictHas(data, "candidates") =>
              LET all == AllCounted
              IN
              /\ Len(seat_df) = SeatCount
              /\ \A k \in 1..Len(seat_df) :
                    /\ DictGet(seat_df[k], K_seat_id, "") = InConstituencies[k][1]
                    /\ TotalVotes(k) = SumVotes(CountedOf(k))
                    /\ DictGet(seat_df[k], UNKNOWN, 0) = TotalVotes(k)
              /\ Len(party_by_seat_df) = Len(all)
              /\ \A i \in 1..Len(party_by_seat_df) :
                    /\ party_by_seat_df[i].party = UNKNOWN
                    /\ party_by_seat_df[i].votes = all[i][2]
              /\ party_totals_df = IF all = <<>> THEN <<>>
                                   ELSE << <<UNKNOWN, SumCounted(all, 1)>> >>

\* A payload without candidates whose two seats both have votes.
C9_Witness ==
    /\ pc = "computed"
    /\ ~DictHas(data, "candidates")
    /\ Len(seat_df) = 2
    /\ TotalVotes(1) > 0 /\ TotalVotes(2) > 0

-----------------------------------------------------------------------------
\* C10: once the join has handled a feature whose normalized display name is
\* the key of no seat row, the feature holds ratio 0.0 and an empty top_three.
Handled(i) == (m_pc = "features" /\ i < m_i) \/ m_pc = "joined"
RowKeys ==
    {normalize_seat_name(Str(DictGet(m_results[k], "seat_name", None))) :
        k \in 1..Len(m_results)}
FeatureKey(i) == normalize_seat_name(FeatureName(m_geojson[i]))
PropertiesOf(i) == DictGet(m_geojson[i], "properties", <<>>)

C10_UnmatchedGetDefaults ==
    \A i \in 1..Len(m_geojson) :
        Handled(i) /\ FeatureKey(i) \notin RowKeys =>
            /\ DictHas(PropertiesOf(i), "ratio")
            /\ DictGet(PropertiesOf(i), "ratio", <<>>) = Zero
            /\ DictHas(PropertiesOf(i), "top_three")
            /\ DictGet(PropertiesOf(i), "top_three", None) = <<>>

-----------------------------------------------------------------------------
\* C11: no two rows of party_by_seat_df hold the same seat_id and party.
C11_OneRowPerSeatParty ==
    Computed =>
        \A i, j \in 1..Len(party_by_seat_df) :
            /\ party_by_seat_df[i].seat_id = party_by_seat_df[j].seat_id
            /\ party_by_seat_df[i].party = party_by_seat_df[j].party
            => i = j

-----------------------------------------------------------------------------
\* C12: after the join every feature holds seat_key, the normalized form of its
\* display name, together with ratio and top_three.
C12_EveryFeatureJoined ==
    m_pc = "joined" =>
        \A i \in 1..Len(m_geojson) :
            /\ DictHas(PropertiesOf(i), "seat_key")
            /\ DictGet(PropertiesOf(i), "seat_key", <<>>) = FeatureKey(i)
            /\ DictHas(PropertiesOf(i), "ratio")
            /\ DictHas(PropertiesOf(i), "top_three")

-----------------------------------------------------------------------------
\* C13: a counted entry whose diid has no candidate record in the seat, or
\* whose record has no party, is counted under the party UNKNOWN: its votes
\* are in the seat total, in its own party_by_seat_df row, in the seat's
\* UNKNOWN column and in the UNKNOWN row of party_totals_df; an entry without a
\* record that ranks in the top three is listed under the name Unknown.
HasNoParty(k, entry) == DictGet(ResolvedRecord(k, entry), "party", <<>>) = <<>>
HasNoRecord(k, entry) == ResolvedRecord(k, entry) = <<>>
PlaceholderOf(k) == SelectSeq(CountedOf(k), LAMBDA entry : HasNoParty(k, entry))
RECURSIVE PlaceholderVotesFrom(_)
PlaceholderVotesFrom(k) ==
    IF k > SeatCount THEN 0 ELSE SumVotes(PlaceholderOf(k)) + PlaceholderVotesFrom(k + 1)
RECURSIVE RowOffset(_)
RowOffset(k) == IF k <= 1 THEN 0 ELSE RowOffset(k - 1) + Len(CountedOf(k - 1))

-----------------------------------------------------------------------------
\* C14: in the first script block holding the quoted key, let open be the first
\* '{' after the first ':' after the first occurrence of the key. The text
\* handed to the decoder runs from open to the first later position where the
\* braces from open on balance, both included; when they never balance the
\* ValueError for the missing end is raised and nothing is returned.
KeyScripts ==
    {k \in 1..Len(page.scripts) :
        page.scripts[k] # None
        /\ \E i \in 1..(Len(page.scripts[k]) - Len(Q_KEY) + 1) :
               SubSeq(page.scripts[k], i, i + Len(Q_KEY) - 1) = Q_KEY}
ChosenScript == page.scripts[CHOOSE k \in KeyScripts : \A j \in KeyScripts : k <= j]
Least(S) == CHOOSE i \in S : \A j \in S : i <= j
KeyPositions(s) ==
    {i \in 1..(Len(s) - Len(Q_KEY) + 1) : SubSeq(s, i, i + Len(Q_KEY) - 1) = Q_KEY}
ColonPositions(s) == {i \in Least(KeyPositions(s))..Len(s) : s[i] = ":"}
OpenPositions(s) == {i \in Least(ColonPositions(s))..Len(s) : s[i] = "{"}
HasOpening(s) == ColonPositions(s) # {} /\ OpenPositions(s) # {}
BraceDepth(s, from, to) ==
    Cardinality({i \in from..to : s[i] = "{"}) - Cardinality({i \in from..to : s[i] = "}"})
ClosePositions(s) ==
    LET open == Least(OpenPositions(s))
    IN {j \in (open + 1)..Len(s) : BraceDepth(s, open, j) = 0}
Extracted == pc \in {"extracted", "computed", "done"} \/ (pc = "failed" /\ error # "RuntimeError")

C14_BraceMatching ==
    Extracted /\ KeyScripts # {} /\ HasOpening(ChosenScript) =>
        LET s == ChosenScript
        IN IF ClosePositions(s) # {}
           THEN /\ json_text = SubSeq(s, Least(OpenPositions(s)), Least(ClosePositions(s)))
                /\ error \in {"", "ValueError: Failed to decode election data"}
           ELSE /\ pc = "failed"
                /\ error = "ValueError: Failed to locate the end of the election2026 JSON object"
                /\ json_text = None
                /\ data = <<>>

\* A script whose election object holds a nested object and is followed and
\* preceded by other text, chosen after a script block without string.
C14_Witness ==
    /\ pc = "extracted"
    /\ page.scripts = <<None, T_nested>>
    /\ json_text = <<"{">> \o Q_KEY \o <<":", "{", MEMBERS, "}", "}">>
    /\ data # <<>>

-----------------------------------------------------------------------------
\* C15: normalize_seat_name removes the prefix 'parbatya ' from a name that
\* carries it and appends '-1' exactly when what remains, without the characters
\* the normalizer drops, does not end in a seat number ('-' and digits); a name
\* without the prefix gets no suffix.
EndsInSeatNumber(s) ==
    \E i \in 1..(Len(s) - 1) :
        s[i] = "-" /\ \A j \in (i + 1)..Len(s) : s[j] \in Digits

WithHillSuffix(norm) ==
    IF StartsWith(norm, W_parbatya_)
    THEN LET rest == SubSeq(norm, Len(W_parbatya_) + 1, Len(norm))
         IN IF EndsInSeatNumber(DropDisallowed(rest)) THEN rest ELSE rest \o <<"-", "1">>
    ELSE norm

ExpectedNorm(name) ==
    IF name = None \/ name = <<>> THEN <<>>
    ELSE CollapseWhitespace(DropDisallowed(WithHillSuffix(
             ApplyVariants(Lower(Strip(name)), 1))))

C15_HillSuffix == [][Len(n_trace) = 0 => n_trace'[1] = ExpectedNorm(n_name)]_vars

-----------------------------------------------------------------------------
\* C16: in a run of main, download_tbs_page is called at most once (once when a
\* URL is given), before extraction, and asks for each of its two URL forms at
\* most once; the local copy is read exactly when retrieval gave no markup and
\* a local copy exists; extraction and aggregation start only with markup from
\* one of the two; with markup from neither the run aborts before extraction
\* and writes no result CSV.
Retrieved == env.url /\ (env.view_source = "page" \/ env.normal = "page")
AfterFetch == pc # "start"
AfterFallback == pc \notin {"start", "fetched"}
Aborted == pc = "failed" /\ error = "RuntimeError"

C16_RetrievalThenFallback ==
    /\ requests = IF pc = "start" \/ ~env.url THEN 0
                  ELSE IF env.view_source = "page" THEN 1 ELSE 2
    /\ html_source = "network" <=> AfterFetch /\ Retrieved
    /\ html_source = "local" <=> AfterFallback /\ ~Retrieved /\ env.local
    /\ Aborted <=> AfterFallback /\ ~Retrieved /\ ~env.local
    /\ pc \in {"start", "fetched", "have_html"} \/ Aborted =>
          /\ json_text = None /\ data = <<>>
          /\ seat_df = <<>> /\ party_totals_df = <<>> /\ party_by_seat_df = <<>>
          /\ files \cap ResultFiles = {}
    /\ AfterFallback /\ ~Aborted =>
          html_text = Html(page.scripts) /\ html_source \in {"network", "local"}

\* C16 as stated: once the fallback step is over, the local copy has been read
\* if and only if retrieval produced no markup.
C16_LocalIffNoMarkup ==
    AfterFallback => (html_source = "local" <=> ~Retrieved)

\* A finished run whose two requests both failed and that used the local copy.
C16_Witness ==
    /\ pc = "done"
    /\ env.url /\ requests = 2
    /\ html_source = "local"
    /\ files \cap ResultFiles = ResultFiles

-----------------------------------------------------------------------------
(* compute_results on payloads whose party names may be names of record       *)
(* fields: two seats, three entries, every choice of their parties.           *)

ColumnParties ==
    {K_total_votes, K_top_three, K_seat_id, VotesKey(<<"a","l">>), RatioKey(<<"b","e">>),
     <<"B">>}
ColumnShapes ==
    << [kind |-> "dict", votes |-> <<1, 2>>], [kind |-> "dict", votes |-> <<2>>] >>
ColumnEntries == << <<1, 1>>, <<1, 2>>, <<2, 1>> >>

\* The candidates of seat k: one record per entry, with the party chosen for it.
ColumnCandidates(k, parties) ==
    LET mine == SelectSeq([e \in 1..Len(ColumnEntries) |-> <<ColumnEntries[e], parties[e]>>],
                          LAMBDA x : x[1][1] = k)
    IN [i \in 1..Len(mine) |->
           << <<"diid", DiidNames[mine[i][1][2]]>>, <<"party", mine[i][2]>> >>]

ColumnPayload(parties) ==
    << <<"constituencies", Constituencies(ColumnShapes)>>,
       <<"candidates", [k \in 1..Len(ColumnShapes) |->
                           <<SeatIds[k], ColumnCandidates(k, parties)>>]>> >>

ColumnPayloads ==
    {ColumnPayload(parties) : parties \in [1..Len(ColumnEntries) -> ColumnParties]}

InitColumns ==
    /\ env = LiveEnv
    /\ page \in [scripts : {<<T_object>>}, embedded : ColumnPayloads]
    /\ InitMain

SpecColumns == InitColumns /\ [][Next]_vars

\* C17: every seat record returned by compute_results holds, in its fixed
\* fields, the values computed for the seat: total_votes and each coalition's
\* votes are those of the record built for the seat, and the per-party columns
\* are added beside the fixed fields, one per distinct party, replacing none.
SeatRecordsBuilt ==
    SeatLoop(InConstituencies, 1,
             [seat_records |-> <<>>, party_vote_totals |-> <<>>,
              party_by_seat_records |-> <<>>, seat_party_votes |-> <<>>],
             InCandidates, coalitions).seat_records

C17_FixedFieldsKept ==
    Computed =>
        \A k \in 1..Len(seat_df) :
            /\ TotalVotes(k) = SumVotes(CountedOf(k))
            /\ \A code \in Codes :
                  CoalitionVotes(k, code)
                      = DictGet(SeatRecordsBuilt[k], VotesKey(code), NoneInt)
            /\ Len(seat_df[k]) = Len(SeatRecordsBuilt[k]) + Len(party_totals_df)
            /\ \A f \in 1..Len(SeatRecordsBuilt[k]) : seat_df[k][f] = SeatRecordsBuilt[k][f]

-----------------------------------------------------------------------------
\* C18: once the join has handled a feature whose key is not empty and is the
\* normalized seat name of some row, the feature holds the ratio and seat_name
\* of the last such row in results order, and as top_three that row's
\* top_three_candidates or, when that is empty, its top_three.
RowKey(k) == normalize_seat_name(Str(DictGet(m_results[k], "seat_name", None)))
RowText(k, column) ==
    IF DictGet(m_results[k], column, NaN) = NaN THEN <<>>
    ELSE DictGet(m_results[k], column, NaN)
RowTopThree(k) ==
    IF RowText(k, "top_three_candidates") # <<>> THEN RowText(k, "top_three_candidates")
    ELSE RowText(k, "top_three")

C18_LastRowWins ==
    LET keys == [k \in 1..Len(m_results) |-> RowKey(k)]
    IN \A i \in 1..Len(m_geojson) :
           LET key == FeatureKey(i)
               rows == {k \in 1..Len(m_results) : keys[k] = key}
           IN Handled(i) /\ key # <<>> /\ rows # {} =>
                  LET k == CHOOSE r \in rows : \A j \in rows : j <= r
                      props == PropertiesOf(i)
                  IN /\ DictGet(props, "seat_key", <<>>) = key
                     /\ DictHas(props, "ratio")
                     /\ DictGet(props, "ratio", <<>>) = DictGet(m_results[k], "ratio", <<>>)
                     /\ DictHas(props, "top_three")
                     /\ DictGet(props, "top_three", None) = RowTopThree(k)
                     /\ DictHas(props, "seat_name")
                     /\ DictGet(props, "seat_name", None)
                           = DictGet(m_results[k], "seat_name", None)

\* Two rows of one key, written differently, and two features of that key.
C18_Witness ==
    /\ m_pc = "joined"
    /\ Len(m_results) = 2 /\ Len(m_geojson) = 2
    /\ RowKey(1) = RowKey(2) /\ RowKey(1) # <<>>
    /\ DictGet(m_results[1], "seat_name", None) # DictGet(m_results[2], "seat_name", None)
    /\ FeatureKey(1) = RowKey(2) /\ FeatureKey(2) = RowKey(2)
    /\ DictGet(PropertiesOf(1), "ratio", <<>>) = DictGet(m_results[2], "ratio", <<>>)

====
